---- MODULE Spec2Model ----
(***************************************************************************)
(* A model of opusfilter/classifier.py: FilterClassifier.                  *)
(*                                                                         *)
(* Numbers.  Scores are integers.  A discard fraction is d/Den for an      *)
(* integer d in 0..Den, and a cutoff c is held as the integer c*Den, so    *)
(* that the linear interpolation of pandas' quantile is exact.  Criterion  *)
(* values are fixed-point integers (see get_roc_auc, get_aic, get_bic).    *)
(*                                                                         *)
(* Names.  A column name is a sequence of tokens; the Python test          *)
(* 'CrossEntropyFilter' in key is a search for the token inside it.        *)
(*                                                                         *)
(* None is the empty tuple and a present value v is <<v>>.                 *)
(***************************************************************************)
EXTENDS Integers, Sequences, FiniteSets, TLC

VARIABLES
    training_data,       \* self.training_data / self.df_training_data
    dev_data,            \* self.dev_data (None when no dev_scores was given)
    dev_labels,          \* self.dev_labels
    tbc_data,            \* self.tbc_data
    discard_thresholds,  \* self.discard_thresholds
    output_file,         \* the lines of self.output_file (None: not written)
    scored_with,         \* the model of the last assign_probabilities call
    labels_train,        \* self.labels_train (None: attribute not set yet)
    criterion,           \* argument of the running find_best_model call
    cutoffs,             \* local of find_best_model
    best,                \* local of find_best_model
    idx,                 \* position of the for loop in discard_thresholds
    pc,                  \* "idle" | "loop" | "returned" | "raised"
    exc,                 \* the exception that ended the call, [type, line]
    step_log,            \* per finished loop body of this call: what it computed
    fits,                \* LogisticRegression.fit calls of this call
    runs,                \* outcomes of the finished find_best_model calls
    cut_log              \* the set_cutoffs/add_labels calls of the labeler

vars == <<training_data, dev_data, dev_labels, tbc_data, discard_thresholds,
          output_file, scored_with, labels_train, criterion, cutoffs, best, idx, pc, exc,
          step_log, fits, runs, cut_log>>

-----------------------------------------------------------------------------
(* Bounds of the model *)

NRows == 3       \* most rows of the training table
MaxVal == 2      \* scores are 0..MaxVal
Den == 4         \* discard fractions are 0/Den .. Den/Den
MaxSweep == 2    \* most entries of discard_thresholds
MaxCalls == 2    \* most find_best_model calls on one instance

None == <<>>
Some(v) == <<v>>
Get(o) == o[1]

-----------------------------------------------------------------------------
(* Column names *)

LengthRatio == <<"LengthRatioFilter">>
CrossEntropy == <<"CrossEntropyFilter", ".", "src">>
Label == <<"label">>

FeatureKeys == {LengthRatio, CrossEntropy}

\* 'CrossEntropyFilter' in key
IsCrossEntropy(key) == \E p \in 1..Len(key) : key[p] = "CrossEntropyFilter"

Keys(table) == IF Len(table) = 0 THEN {} ELSE DOMAIN table[1]

Column(table, key) == [r \in 1..Len(table) |-> table[r][key]]

-----------------------------------------------------------------------------
(* pandas Series.quantile(q), q = num/Den, linear interpolation: the value *)
(* at position q*(n-1) of the sorted column, times Den.                    *)

\* sorted(col)[k], k counted from 0
Sorted(col, k) ==
    CHOOSE v \in {col[r] : r \in DOMAIN col} :
        /\ Cardinality({r \in DOMAIN col : col[r] < v}) <= k
        /\ Cardinality({r \in DOMAIN col : col[r] <= v}) > k

Quantile(col, num) ==
    LET n == Len(col)
        pos == num * (n - 1)
        lo == pos \div Den
        hi == IF lo + 1 <= n - 1 THEN lo + 1 ELSE lo
        frac == pos % Den
    IN  Sorted(col, lo) * Den + (Sorted(col, hi) - Sorted(col, lo)) * frac

\* set_cutoffs with the two quantile levels exchanged
set_cutoffs_exchanged(table, discard, cuts) ==
    [key \in DOMAIN cuts |->
        IF IsCrossEntropy(key)
        THEN Some(Quantile(Column(table, key), discard))
        ELSE Some(Quantile(Column(table, key), Den - discard))]

\* set_cutoffs(discard, cutoffs): one cutoff per key of cutoffs
set_cutoffs(table, discard, cuts) ==
    [key \in DOMAIN cuts |->
        IF IsCrossEntropy(key)
        THEN Some(Quantile(Column(table, key), Den - discard))
        ELSE Some(Quantile(Column(table, key), discard))]

\* add_labels failing the rows that sit on a cutoff
add_labels_strict(table, cuts) ==
    [r \in 1..Len(table) |->
        IF \E key \in DOMAIN cuts :
              IF IsCrossEntropy(key)
              THEN table[r][key] * Den >= Get(cuts[key])
              ELSE table[r][key] * Den <= Get(cuts[key])
        THEN 0 ELSE 1]

\* add_labels keeping the 0 labels that self.labels_train already holds
add_labels_kept(table, cuts) ==
    [r \in 1..Len(table) |->
        IF \/ labels_train # None /\ Get(labels_train)[r] = 0
           \/ \E key \in DOMAIN cuts :
                IF IsCrossEntropy(key)
                THEN table[r][key] * Den > Get(cuts[key])
                ELSE table[r][key] * Den < Get(cuts[key])
        THEN 0 ELSE 1]

\* add_labels(cutoffs): the new value of self.labels_train
add_labels(table, cuts) ==
    [r \in 1..Len(table) |->
        IF \E key \in DOMAIN cuts :
              IF IsCrossEntropy(key)
              THEN table[r][key] * Den > Get(cuts[key])
              ELSE table[r][key] * Den < Get(cuts[key])
        THEN 0 ELSE 1]

-----------------------------------------------------------------------------
(* sklearn's LogisticRegression, an external capability.  What the code    *)
(* relies on is modelled: fit is a deterministic function of (x, y) that   *)
(* raises ValueError when y holds one class only, and the fitted model is  *)
(* a linear decision function (coef_, intercept_).  The coefficients are   *)
(* those of the class-centroid separator, an exact integer stand-in for    *)
(* the liblinear optimum.                                                  *)

RECURSIVE SeqSum(_, _)
SeqSum(s, n) == IF n = 0 THEN 0 ELSE s[n] + SeqSum(s, n - 1)

RECURSIVE SetSum(_, _)
SetSum(f, S) ==
    IF S = {} THEN 0
    ELSE LET e == CHOOSE e \in S : TRUE IN f[e] + SetSum(f, S \ {e})

Abs(a) == IF a < 0 THEN -a ELSE a

Classes(y) == {y[r] : r \in DOMAIN y}

CountOf(y, c) == Cardinality({r \in DOMAIN y : y[r] = c})

ClassSum(x, y, key, c) ==
    SeqSum([r \in 1..Len(x) |-> IF y[r] = c THEN x[r][key] ELSE 0], Len(x))

\* LR.fit(x_train, y_train) for a y_train of two classes
Fit(x, y) ==
    LET n0 == CountOf(y, 0)
        n1 == CountOf(y, 1)
        w == [key \in Keys(x) |->
                n0 * ClassSum(x, y, key, 1) - n1 * ClassSum(x, y, key, 0)]
        mid == [key \in Keys(x) |->
                w[key] * (n0 * ClassSum(x, y, key, 1) + n1 * ClassSum(x, y, key, 0))]
    IN  [coef |-> w, scale |-> 2 * n0 * n1, intercept |-> 0 - SetSum(mid, Keys(x))]

\* model.decision_function(row)
Decision(model, row) ==
    SetSum([key \in DOMAIN model.coef |-> model.coef[key] * model.scale * row[key]],
           DOMAIN model.coef) + model.intercept

\* model.predict(table)
predict(model, table) ==
    [r \in 1..Len(table) |-> IF Decision(model, table[r]) > 0 THEN 1 ELSE 0]

\* model.predict_proba(table): per row <<P(class 0), P(class 1)>>, each a
\* fraction <<numerator, denominator>>; P(class 1) grows with the decision
\* value and exceeds 1/2 exactly when the decision value is positive.
predict_proba(model, table) ==
    [r \in 1..Len(table) |->
        LET d == Decision(model, table[r])
        IN  << <<1 + Abs(d) - d, 2 * (1 + Abs(d))>>,
               <<1 + Abs(d) + d, 2 * (1 + Abs(d))>> >>]

\* a fit that accepts single-class labels
train_logreg_never_raises(labels) == FALSE

\* train_logreg(): ValueError of fit (line 81) or the fitted model
train_logreg_raises(labels) == Cardinality(Classes(labels)) < 2

train_logreg(table, labels) == Fit(table, labels)

-----------------------------------------------------------------------------
(* Criteria *)

\* sklearn.metrics.roc_auc_score(y_true, y_score) * 2 * P * N: over the
\* (positive, negative) pairs, 2 for a pair ranked right and 1 for a tie.
FracLess(a, b) == a[1] * b[2] < b[1] * a[2]

FracEq(a, b) == a[1] * b[2] = b[1] * a[2]

roc_auc_score(y_true, y_score) ==
    LET pos == {r \in DOMAIN y_true : y_true[r] = 1}
        neg == {r \in DOMAIN y_true : y_true[r] = 0}
    IN  2 * Cardinality({pr \in pos \X neg : FracLess(y_score[pr[2]], y_score[pr[1]])})
        + Cardinality({pr \in pos \X neg : FracEq(y_score[pr[2]], y_score[pr[1]])})

\* get_roc_auc(model), in units of 1/(2*P*N)
get_roc_auc(model, dev, labels) ==
    LET probs == predict_proba(model, dev)
        auc1 == roc_auc_score(labels, [r \in DOMAIN probs |-> probs[r][1]])
        auc2 == roc_auc_score(labels, [r \in DOMAIN probs |-> probs[r][2]])
    IN  IF auc1 > auc2 THEN auc1 ELSE auc2

\* get_sse(model), in hundredths: sum(resid**2) + 0.01
get_sse(model, table, labels) ==
    LET y_hat == predict(model, table)
        resid == [r \in DOMAIN y_hat |-> labels[r] - y_hat[r]]
    IN  100 * SeqSum([r \in DOMAIN resid |-> resid[r] * resid[r]], Len(resid)) + 1

\* math.log, in thousandths (rounded): of m + 0.01 and of n, for m, n in 0..7
LogSseTable == <<-4605, 10, 698, 1102, 1389, 1611, 1793, 1947>>

LogTable == <<0, 693, 1099, 1386, 1609, 1792, 1946>>

LogSse(sse) == LogSseTable[(sse - 1) \div 100 + 1]

Log(n) == LogTable[n]

\* number of variables, number of observations
Shape(table) == <<Len(table), Cardinality(Keys(table))>>

\* get_aic(model), in thousandths
get_aic(model, table, labels) ==
    LET sse == get_sse(model, table, labels)
        k == Shape(table)[2]
    IN  2 * k * 1000 - 2 * LogSse(sse)

\* get_bic with the sign of the fit term turned
get_bic_sign(model, table, labels) ==
    LET sse == get_sse(model, table, labels)
        k == Shape(table)[2]
        n == Shape(table)[1]
    IN  Log(n) * k + 2 * LogSse(sse)

\* get_bic(model), in thousandths
get_bic(model, table, labels) ==
    LET sse == get_sse(model, table, labels)
        k == Shape(table)[2]
        n == Shape(table)[1]
    IN  Log(n) * k - 2 * LogSse(sse)

-----------------------------------------------------------------------------
(* Inputs: the files handed to the constructor *)

Rows(keys) == [keys -> 0..MaxVal]

\* the records of a jsonlines file of lo..hi lines, every line with these keys
Records(keys, lo, hi) == UNION {[1..n -> Rows(keys)] : n \in lo..hi}

Sweeps == UNION {[1..n -> 0..Den] : n \in 0..MaxSweep}

Criteria == {"roc_auc", "AIC", "BIC"}

\* dev_scores files: none, or the four corner score rows, those of the high
\* length ratio labelled 1 (a held-out file holds both classes)
DevRow(lr, ce, lab) ==
    (LengthRatio :> lr) @@ (CrossEntropy :> ce) @@ (Label :> lab)

DevByLength ==
    << DevRow(0, 0, 0), DevRow(MaxVal, 0, 1), DevRow(0, MaxVal, 0), DevRow(MaxVal, MaxVal, 1) >>

DevFiles == {None, Some(DevByLength)}

\* json_normalize + pd.DataFrame of flat records: one column per key
json_normalize(records) == records

\* DataFrame.pop(key): <<the column, the frame without it>>
Pop(table, key) ==
    << Column(table, key),
       [r \in 1..Len(table) |-> [k \in DOMAIN table[r] \ {key} |-> table[r][k]]] >>

\* FilterClassifier.__init__, with discard_thresholds given (the default of
\* line 30 is one such sequence) and output_file held as its content
Construct(training_scores, to_be_classified, thresholds, dev_scores) ==
    /\ training_data = json_normalize(training_scores)
    /\ tbc_data = json_normalize(to_be_classified)
    /\ discard_thresholds = thresholds
    /\ output_file = None
    /\ scored_with = None
    /\ IF dev_scores # None
       THEN /\ dev_data = Some(Pop(json_normalize(Get(dev_scores)), Label)[2])
            /\ dev_labels = Some(Pop(json_normalize(Get(dev_scores)), Label)[1])
       ELSE /\ dev_data = None
            /\ dev_labels = None
    /\ labels_train = None
    /\ criterion = None
    /\ cutoffs = None
    /\ best = None
    /\ idx = 0
    /\ pc = "idle"
    /\ exc = None
    /\ step_log = <<>>
    /\ fits = 0
    /\ runs = <<>>
    /\ cut_log = <<>>

Init ==
    \E tr \in Records(FeatureKeys, 1, NRows), th \in Sweeps, dev \in DevFiles :
        Construct(tr, <<>>, th, dev)

-----------------------------------------------------------------------------
(* find_best_model(criterion) *)

inst == <<training_data, dev_data, dev_labels, tbc_data, discard_thresholds,
          output_file, scored_with>>

\* the call and lines 118-119
Call(c) ==
    /\ pc \in {"idle", "returned", "raised"}
    /\ Len(runs) < MaxCalls
    /\ criterion' = Some(c)
    /\ cutoffs' = Some([key \in Keys(training_data) |-> None])
    /\ best' = None
    /\ idx' = 1
    /\ pc' = "loop"
    /\ exc' = None
    /\ step_log' = <<>>
    /\ fits' = 0
    /\ UNCHANGED <<inst, labels_train, runs, cut_log>>

InLoop == pc = "loop" /\ idx <= Len(discard_thresholds)

\* lines 123-124: <<the cutoffs, the labels>> of the step at idx
StepLabeler ==
    LET cuts == set_cutoffs(training_data, discard_thresholds[idx], Get(cutoffs))
    IN  <<cuts, add_labels(training_data, cuts)>>

Raise(type, line) ==
    /\ pc' = "raised"
    /\ exc' = Some([type |-> type, line |-> line])
    /\ runs' = Append(runs, [criterion |-> Get(criterion), outcome |-> "raised",
                             type |-> type, crit_value |-> 0, discard |-> 0])

\* lines 127-132
Criterion(crit, model, labels) ==
    CASE crit = "roc_auc" -> get_roc_auc(model, Get(dev_data), Get(dev_labels))
      [] crit = "AIC" -> get_aic(model, training_data, labels)
      [] crit = "BIC" -> get_bic(model, training_data, labels)

\* the comparisons of lines 135 and 138 made non-strict
Better_or_equal(crit, old, crit_value) ==
    IF crit = "roc_auc"
    THEN old = None \/ crit_value >= Get(old)[2]
    ELSE old = None \/ crit_value <= Get(old)[2]

\* lines 134-139: the condition under which the step replaces best
Better(crit, old, crit_value) ==
    IF crit = "roc_auc"
    THEN old = None \/ crit_value > Get(old)[2]
    ELSE old = None \/ crit_value < Get(old)[2]

\* a loop body in which LR.fit raises (line 81)
IterateFitRaises ==
    /\ InLoop
    /\ \E cl \in {StepLabeler} :
        /\ train_logreg_raises(cl[2])
        /\ cutoffs' = Some(cl[1])
        /\ labels_train' = Some(cl[2])
    /\ Raise("ValueError", 81)
    /\ UNCHANGED <<inst, criterion, best, idx, step_log, fits, cut_log>>

\* a loop body in which get_roc_auc finds no self.dev_data (line 86)
IterateNoDevData ==
    /\ InLoop
    /\ Get(criterion) = "roc_auc"
    /\ dev_data = None
    /\ \E cl \in {StepLabeler} :
        /\ ~train_logreg_raises(cl[2])
        /\ cutoffs' = Some(cl[1])
        /\ labels_train' = Some(cl[2])
    /\ fits' = fits + 1
    /\ Raise("AttributeError", 86)
    /\ UNCHANGED <<inst, criterion, best, idx, step_log, cut_log>>

\* a loop body that runs to its end (lines 121-142)
Iterate ==
    /\ InLoop
    /\ Get(criterion) = "roc_auc" => dev_data # None
    /\ \E cl \in {StepLabeler} :
        /\ ~train_logreg_raises(cl[2])
        /\ cutoffs' = Some(cl[1])
        /\ labels_train' = Some(cl[2])
        /\ \E LR \in {train_logreg(training_data, cl[2])} :
           \E crit_value \in {Criterion(Get(criterion), LR, cl[2])} :
            /\ best' = IF Better(Get(criterion), best, crit_value)
                       THEN Some(<<LR, crit_value, discard_thresholds[idx]>>)
                       ELSE best
            /\ step_log' = Append(step_log, [discard |-> discard_thresholds[idx],
                                             labels |-> cl[2],
                                             model |-> LR,
                                             crit_value |-> crit_value])
    /\ fits' = fits + 1
    /\ idx' = idx + 1
    /\ UNCHANGED <<inst, criterion, pc, exc, runs, cut_log>>

\* the end of the call returning the None it holds
ReturnNone ==
    /\ pc = "loop"
    /\ idx > Len(discard_thresholds)
    /\ best = None
    /\ pc' = "returned"
    /\ runs' = Append(runs, [criterion |-> Get(criterion), outcome |-> "returned",
                             type |-> "", crit_value |-> 0, discard |-> 0])
    /\ UNCHANGED <<inst, labels_train, criterion, cutoffs, best, idx, exc,
                   step_log, fits, cut_log>>

\* after the loop, best is None: best[2] raises (line 146)
RaiseNoBest ==
    /\ pc = "loop"
    /\ idx > Len(discard_thresholds)
    /\ best = None
    /\ Raise("TypeError", 146)
    /\ UNCHANGED <<inst, labels_train, criterion, cutoffs, best, idx,
                   step_log, fits, cut_log>>

\* after the loop: return best (line 147)
ReturnBest ==
    /\ pc = "loop"
    /\ idx > Len(discard_thresholds)
    /\ best # None
    /\ pc' = "returned"
    /\ runs' = Append(runs, [criterion |-> Get(criterion), outcome |-> "returned",
                             type |-> "", crit_value |-> Get(best)[2],
                             discard |-> Get(best)[3]])
    /\ UNCHANGED <<inst, labels_train, criterion, cutoffs, best, idx,
                   exc, step_log, fits, cut_log>>

Next ==
    \/ \E c \in Criteria : Call(c)
    \/ IterateFitRaises
    \/ IterateNoDevData
    \/ Iterate
    \/ RaiseNoBest
    \/ ReturnBest

Spec == Init /\ [][Next]_vars

-----------------------------------------------------------------------------
(* Claims about find_best_model, under Spec *)

Running == pc \in {"loop", "returned"} /\ criterion # None

\* whether value a is strictly better than value b under the criterion
StrictlyBetter(crit, a, b) == IF crit = "roc_auc" THEN a > b ELSE a < b

\* the first position of a sequence of values that no position beats
FirstOptimum(crit, values) ==
    CHOOSE j \in 1..Len(values) :
        /\ \A k \in 1..Len(values) : ~StrictlyBetter(crit, values[k], values[j])
        /\ \A k \in 1..(j - 1) : StrictlyBetter(crit, values[j], values[k])

CritValues == [k \in 1..Len(step_log) |-> step_log[k].crit_value]

Triple(step) == Some(<<step.model, step.crit_value, step.discard>>)

\* C1: after every step, and at the return, best is the triple of the first
\* step whose criterion value is the maximum (roc_auc) or the minimum (AIC,
\* BIC) of the steps processed so far.
C1_BestIsFirstOptimum ==
    (Running /\ Len(step_log) >= 1) =>
        best = Triple(step_log[FirstOptimum(Get(criterion), CritValues)])

\* C1, the case: a returned sweep of two steps with different discard
\* fractions and the same criterion value, the first one kept.
C1_Witness ==
    /\ pc = "returned"
    /\ Len(step_log) = 2
    /\ step_log[1].crit_value = step_log[2].crit_value
    /\ step_log[1].discard # step_log[2].discard
    /\ step_log[1].model # step_log[2].model
    /\ Get(best)[3] = step_log[1].discard

\* C3: with an empty discard_thresholds no call returns: the call cannot
\* enter the loop body or reach the return, it can only raise, and every
\* finished call raised the TypeError of line 146 (the code's form of
\* NoCandidateError).
C3_EmptySweepRaises ==
    Len(discard_thresholds) = 0 =>
        /\ pc # "returned"
        /\ pc = "loop" => (ENABLED RaiseNoBest /\ ~ENABLED ReturnBest /\ ~ENABLED Iterate)
        /\ pc = "raised" => Get(exc) = [type |-> "TypeError", line |-> 146]
        /\ \A a \in 1..Len(runs) :
              runs[a].outcome = "raised" /\ runs[a].type = "TypeError"

\* C3, the case: a call on an instance with an empty sweep has raised.
C3_Witness ==
    /\ Len(discard_thresholds) = 0
    /\ pc = "raised"
    /\ Len(runs) >= 1

\* C4: when roc_auc is asked for and there is no dev table, the call fails
\* before the sweep starts: at the failure (the AttributeError of
\* self.dev_data) no cutoff is computed and no classifier is fitted.
C4_FailsBeforeSweep ==
    (pc = "raised" /\ Get(exc).type = "AttributeError") =>
        /\ fits = 0
        /\ \A key \in DOMAIN Get(cutoffs) : Get(cutoffs)[key] = None

TwoClass(labels) == Classes(labels) = {0, 1}

WellDefined(labels) ==
    /\ DOMAIN labels = 1..Len(training_data)
    /\ \A r \in DOMAIN labels : labels[r] \in {0, 1}

\* C5: a step whose pseudo-labels are single-class has well-defined labels
\* and ends the call in the ValueError of fit (the code's form of
\* DegenerateLabelsError): every step that ran to its end and logged a
\* criterion value had two-class labels, and best is None or the triple of
\* such a step, when the call raises as when it goes on or returns.
C5_DegenerateStepRaises ==
    /\ \A k \in 1..Len(step_log) : TwoClass(step_log[k].labels)
    /\ (pc = "loop" /\ idx > 1) =>
          /\ Len(step_log) = idx - 1
          /\ Get(labels_train) = step_log[idx - 1].labels
    /\ (pc = "raised" /\ Get(exc) = [type |-> "ValueError", line |-> 81]) =>
          /\ WellDefined(Get(labels_train))
          /\ ~TwoClass(Get(labels_train))
          /\ Len(step_log) = idx - 1
    /\ (criterion # None /\ best # None) =>
          \E k \in 1..Len(step_log) : best = Triple(step_log[k])
    /\ pc = "returned" => best # None

\* C5, the case: the second step of a sweep is single-class after a first
\* step that was fitted and scored, and the call has raised.
C5_Witness ==
    /\ pc = "raised"
    /\ Get(exc) = [type |-> "ValueError", line |-> 81]
    /\ idx = 2
    /\ best # None
    /\ ~TwoClass(Get(labels_train))

\* C8: two calls of find_best_model on one instance with the same criterion
\* end the same way, with the same best criterion value and the same chosen
\* discard fraction.
C8_RunsAgree ==
    \A a, b \in 1..Len(runs) :
        runs[a].criterion = runs[b].criterion => runs[a] = runs[b]

\* C8, the case: a second call with the criterion of the first has returned,
\* having started from the labels the first call left behind.
C8_Witness ==
    /\ Len(runs) = 2
    /\ runs[1].criterion = runs[2].criterion
    /\ runs[2].outcome = "returned"
    /\ Len(step_log) = 2
    /\ step_log[1].labels # step_log[2].labels

SseOf(step) == get_sse(step.model, training_data, step.labels)

SseValues == [k \in 1..Len(step_log) |-> SseOf(step_log[k])]

\* C10: under AIC and under BIC, best is the first step whose SSE is the
\* largest of the steps so far, and an AIC call and a BIC call on one
\* instance end the same way with the same discard fraction.
C10_AicBicPickLargestSse ==
    /\ (Running /\ Get(criterion) \in {"AIC", "BIC"} /\ Len(step_log) >= 1) =>
          best = Triple(step_log[FirstOptimum("roc_auc", SseValues)])
    /\ \A a, b \in 1..Len(runs) :
          (runs[a].criterion = "AIC" /\ runs[b].criterion = "BIC") =>
              /\ runs[a].outcome = runs[b].outcome
              /\ runs[a].type = runs[b].type
              /\ runs[a].discard = runs[b].discard

\* C10, the case: an AIC call and then a BIC call have returned the second
\* of two steps, the one with more training misclassifications.
C10_Witness ==
    /\ Len(runs) = 2
    /\ runs[1].criterion = "AIC"
    /\ runs[2].criterion = "BIC"
    /\ runs[1].outcome = "returned"
    /\ runs[2].outcome = "returned"
    /\ Len(step_log) = 2
    /\ SseOf(step_log[2]) > SseOf(step_log[1])
    /\ runs[2].discard = step_log[2].discard

-----------------------------------------------------------------------------
(* The cutoff labeler on its own: set_cutoffs, then add_labels, for any    *)
(* training table and any discard fractions.                               *)

InitCut ==
    \E tr \in Records(FeatureKeys, 1, NRows) : Construct(tr, <<>>, <<>>, None)

\* lines 123-124 for the discard fraction d (line 118 before the first)
Labeler(d) ==
    /\ Len(cut_log) < MaxSweep
    /\ \E cuts \in {set_cutoffs(training_data, d,
                        IF cutoffs = None
                        THEN [key \in Keys(training_data) |-> None]
                        ELSE Get(cutoffs))} :
       \E labels \in {add_labels(training_data, cuts)} :
        /\ cutoffs' = Some(cuts)
        /\ labels_train' = Some(labels)
        /\ cut_log' = Append(cut_log, [discard |-> d, cutoffs |-> cuts])
    /\ UNCHANGED <<inst, criterion, best, idx, pc, exc, step_log, fits, runs>>

NextCut == \E d \in 0..Den : Labeler(d)

SpecCut == InitCut /\ [][NextCut]_vars

\* the rule of one feature for a score and a discard fraction
Passes(key, score, discard) ==
    IF IsCrossEntropy(key)
    THEN score * Den <= Quantile(Column(training_data, key), Den - discard)
    ELSE score * Den >= Quantile(Column(training_data, key), discard)

\* C2: after cutoffs and labels are computed for a discard fraction, the
\* label vector has one entry in {0,1} per training row, and the entry of row
\* r is 1 exactly when the row passes the rule of every feature.
C2_LabelsFollowRule ==
    cut_log # <<>> =>
        LET labels == Get(labels_train)
            discard == cut_log[Len(cut_log)].discard
        IN  /\ DOMAIN labels = 1..Len(training_data)
            /\ \A r \in DOMAIN labels :
                /\ labels[r] \in {0, 1}
                /\ labels[r] = 1 <=>
                      \A key \in Keys(training_data) :
                          Passes(key, training_data[r][key], discard)

\* C2, the case: labels of both classes, with a row that sits on the cutoff
\* of each feature and is labelled 1.
C2_Witness ==
    /\ cut_log # <<>>
    /\ TwoClass(Get(labels_train))
    /\ \E r \in 1..Len(training_data) :
        /\ Get(labels_train)[r] = 1
        /\ \A key \in Keys(training_data) :
              training_data[r][key] * Den = Get(Get(cutoffs)[key])

\* C9: of two discard fractions, the larger gives every feature that is not
\* a CrossEntropyFilter a cutoff that is not smaller.
C9_CutoffMonotone ==
    \A a, b \in 1..Len(cut_log) :
        cut_log[a].discard <= cut_log[b].discard =>
            \A key \in Keys(training_data) :
                ~IsCrossEntropy(key) =>
                    Get(cut_log[a].cutoffs[key]) <= Get(cut_log[b].cutoffs[key])

\* C9, the case: two discard fractions, the second larger, with a larger
\* LengthRatioFilter cutoff and a smaller CrossEntropyFilter cutoff.
C9_Witness ==
    /\ Len(cut_log) = 2
    /\ cut_log[1].discard < cut_log[2].discard
    /\ Get(cut_log[1].cutoffs[LengthRatio]) < Get(cut_log[2].cutoffs[LengthRatio])
    /\ Get(cut_log[1].cutoffs[CrossEntropy]) > Get(cut_log[2].cutoffs[CrossEntropy])

-----------------------------------------------------------------------------
(* assign_probabilities(model) *)

Digits == 10

RECURSIVE Pow10(_)
Pow10(k) == IF k = 0 THEN 1 ELSE 10 * Pow10(k - 1)

Half == Pow10(Digits \div 2)

\* '{0:.10f}'.format(p) for the fraction p = <<numerator, denominator>> in 0..1:
\* p rounded to Digits decimals (a tie to the even digit), as <<the integer
\* digit, the first five decimals, the last five decimals>>
Format(p) ==
    LET q1 == (p[1] * Half) \div p[2]
        r1 == (p[1] * Half) % p[2]
        q2 == (r1 * Half) \div p[2]
        r2 == (r1 * Half) % p[2]
        up == IF 2 * r2 > p[2] \/ (2 * r2 = p[2] /\ q2 % 2 = 1) THEN 1 ELSE 0
        lo == (q2 + up) % Half
        hi == q1 + (q2 + up) \div Half
    IN  <<hi \div Half, hi % Half, lo>>

\* the negative-class column written instead
WriteLines_negative(model, table) ==
    LET probas == predict_proba(model, table)
    IN  [k \in 1..Len(probas) |-> Format(probas[k][1])]

\* lines 151-154: the lines written for probas[:,1]
WriteLines(model, table) ==
    LET probas == predict_proba(model, table)
    IN  [k \in 1..Len(probas) |-> Format(probas[k][2])]

\* one scoring per instance: the file is written once, for the chosen model
AssignProbabilities(model) ==
    /\ output_file = None
    /\ DOMAIN model.coef = Keys(tbc_data)
    /\ output_file' = Some(WriteLines(model, tbc_data))
    /\ scored_with' = Some(model)
    /\ UNCHANGED <<training_data, dev_data, dev_labels, tbc_data, discard_thresholds,
                   labels_train, criterion, cutoffs, best, idx, pc, exc, step_log,
                   fits, runs, cut_log>>

\* the fitted models handed to assign_probabilities
Signs == {-1, 0, 1}

Models == {[coef |-> c, scale |-> 1, intercept |-> b] :
              c \in [FeatureKeys -> Signs], b \in Signs}

InitWrite ==
    \E tbc \in Records(FeatureKeys, 1, NRows) :
        Construct(<<[key \in FeatureKeys |-> 0]>>, tbc, <<>>, None)

NextWrite == \E model \in Models : AssignProbabilities(model)

SpecWrite == InitWrite /\ [][NextWrite]_vars

\* P(class 1) of one row, by the model's decision value for that row
PositiveProbability(model, row) ==
    LET d == Decision(model, row)
    IN  IF d >= 0 THEN <<1 + 2 * d, 2 + 2 * d>> ELSE <<1, 2 - 2 * d>>

\* C6: the file written for a model holds one line per row of the target
\* table, and line k is the positive-class probability of row k.
C6_OneLinePerRow ==
    output_file # None =>
        /\ DOMAIN Get(output_file) = 1..Len(tbc_data)
        /\ \A k \in 1..Len(tbc_data) :
              Get(output_file)[k] =
                  Format(PositiveProbability(Get(scored_with), tbc_data[k]))

\* C6, the case: a file of NRows lines, no two of them alike, and none at 1/2.
C6_Witness ==
    /\ output_file # None
    /\ Len(Get(output_file)) = NRows
    /\ \A j, k \in 1..NRows : j # k => Get(output_file)[j] # Get(output_file)[k]
    /\ \A k \in 1..NRows : Get(output_file)[k] # Format(<<1, 2>>)

-----------------------------------------------------------------------------
(* Training files whose records carry a label field *)

LabelledRows ==
    {(LengthRatio :> v) @@ (Label :> lab) : v \in 0..MaxVal, lab \in {0, 1}}

LabelledRecords == UNION {[1..n -> LabelledRows] : n \in 1..NRows}

InitLoad ==
    \E tr \in LabelledRecords, th \in Sweeps : Construct(tr, <<>>, th, None)

NextLoad ==
    \/ \E c \in Criteria : Call(c)
    \/ IterateFitRaises
    \/ IterateNoDevData
    \/ Iterate
    \/ RaiseNoBest
    \/ ReturnBest

SpecLoad == InitLoad /\ [][NextLoad]_vars

\* C7: label is no feature column of a loaded table: it is no key of the
\* cutoff map, and no column of the matrix a classifier is fitted on.
C7_LabelIsNoFeature ==
    /\ dev_data # None => Label \notin Keys(Get(dev_data))
    /\ cutoffs # None => Label \notin DOMAIN Get(cutoffs)
    /\ \A k \in 1..Len(step_log) : Label \notin DOMAIN step_log[k].model.coef

====
